---- MODULE Spec2Model ----
(***************************************************************************)
(* Model of src/src/server.py: the RedditServer normalization layer        *)
(* (_get_post_type, _get_post_content, _build_post, _build_comment_tree),  *)
(* its eight public operations with their error translation, and the tool  *)
(* functions that construct one RedditServer per invocation.               *)
(*                                                                         *)
(* Conventions.                                                            *)
(*   A Python str is a sequence of string tokens; "" is <<>> and str       *)
(*   concatenation is \o.  An Optional[str] is a record [some, str].       *)
(*   A value that a function returns, or an exception it raises, is a      *)
(*   record tagged by "kind".                                              *)
(***************************************************************************)
EXTENDS Integers, Sequences, FiniteSets, TLC

(***************************************************************************)
(* Bounds of the model and constants of the program.                       *)
(***************************************************************************)
\* Comment nodes of an upstream comment tree handed to _build_comment_tree.
MaxNodes == 4
\* Largest depth argument a direct caller passes to _build_comment_tree.
MaxDepth == 3
\* The default of the depth parameter (server.py line 129).
DefaultDepth == 3

Min(a, b) == IF a <= b THEN a ELSE b
Max(a, b) == IF a >= b THEN a ELSE b

RECURSIVE SetMax(_)
SetMax(S) == IF S = {} THEN 0
             ELSE LET x == CHOOSE y \in S : TRUE IN Max(x, SetMax(S \ {x}))

RECURSIVE SortedSeq(_)
\* The elements of a finite set of integers, ascending.
SortedSeq(S) == IF S = {} THEN <<>>
                ELSE LET m == CHOOSE y \in S : \A z \in S : y <= z
                     IN <<m>> \o SortedSeq(S \ {m})

(***************************************************************************)
(* Python values.                                                          *)
(***************************************************************************)
None == [kind |-> "none"]
Raise(type, msg) == [kind |-> "raise", type |-> type, msg |-> msg]
IsRaise(v) == v.kind = "raise"

NoneStr == [some |-> FALSE, str |-> <<>>]
Some(s) == [some |-> TRUE, str |-> s]

\* Python truthiness of an Optional[str]: None and "" are falsy.
TruthyStr(o) == o.some /\ o.str # <<>>

\* Python truthiness of what _build_comment_tree returns: None is falsy, a
\* pydantic model instance (no __bool__, no __len__) is truthy.
Truthy(v) == v.kind # "none"

\* s occurs in t as a contiguous run of tokens.
Contains(t, s) ==
  \E i \in 0..(Len(t) - Len(s)) : \A j \in 1..Len(s) : t[i + j] = s[j]

(***************************************************************************)
(* Upstream comment data.  Comment k of the pool has its own id, body and  *)
(* score; its author cycles through absent, empty and two names.  The      *)
(* comment numbered bad has no body: building a Comment from it fails      *)
(* pydantic's validation of the field body: str.                           *)
(***************************************************************************)
IdPool == <<"c1", "c2", "c3", "c4", "c5", "c6", "c7", "c8">>
BodyPool == <<"b1", "b2", "b3", "b4", "b5", "b6", "b7", "b8">>
AuthorPool == <<NoneStr, Some(<<>>), Some(<<"alice">>), Some(<<"bob">>)>>

CommentValue(k, bad) ==
  [id36 |-> <<IdPool[k]>>,
   author_display_name |-> AuthorPool[((k - 1) % Len(AuthorPool)) + 1],
   body |-> IF k = bad THEN NoneStr ELSE Some(<<BodyPool[k]>>),
   score |-> 7 * k - 10]

(***************************************************************************)
(* Upstream comment-tree node graphs.  A shape is the preorder list of the *)
(* nodes' levels (level 1 = a node the fetch returned at the top).  A      *)
(* graph adds to a shape an assignment of pool comments to nodes, and      *)
(* optionally one extra edge from a node back to itself or to one of its   *)
(* ancestors: a malformed graph in which a node is its own descendant.     *)
(***************************************************************************)
\* Shapes with n nodes; with rooted, node 1 is the only node of level 1.
Shapes(n, rooted) ==
  {d \in [1..n -> 1..n] :
     /\ n > 0 => d[1] = 1
     /\ \A i \in 2..n : d[i] <= d[i - 1] + 1 /\ (rooted => d[i] >= 2)}

ChildrenOf(d, n, i) ==
  SortedSeq({j \in (i + 1)..n :
               d[j] = d[i] + 1 /\ \A k \in (i + 1)..j : d[k] > d[i]})

AncestorsOrSelf(d, a) ==
  {b \in 1..a : b = a \/ (d[b] < d[a] /\ \A k \in (b + 1)..a : d[k] > d[b])}

\* Which pool comment sits at which node: the rotations of 1..n and their
\* reversals.  The three children of a node (n = 4) get the pool comments in
\* each of the six relative orders.
Assignments(n) ==
  (IF n = 0 THEN {<<>>} ELSE {})
    \cup {[i \in 1..n |-> ((i - 1 + r) % n) + 1] : r \in 0..(n - 1)}
    \cup {[i \in 1..n |-> n - ((i - 1 + r) % n)] : r \in 0..(n - 1)}

\* <<0, 0>> is no extra edge; <<a, b>> makes b (a itself, or an ancestor of
\* a) the last child of a.
BackEdges(d, n) ==
  {<<0, 0>>} \cup {e \in (1..n) \X (1..n) : e[2] \in AncestorsOrSelf(d, e[1])}

\* levels: the ghost record of each node's level, kept for the properties.
MkGraph(d, n, p, e, bad) ==
  [n |-> n,
   top |-> SortedSeq({i \in 1..n : d[i] = 1}),
   ch |-> [i \in 1..n |->
             ChildrenOf(d, n, i) \o (IF e[1] = i THEN <<e[2]>> ELSE <<>>)],
   val |-> [i \in 1..n |-> CommentValue(p[i], bad)],
   levels |-> d,
   back |-> e]

\* The graphs with n nodes; with cyclic, those with an extra edge too.
Graphs(n, rooted, cyclic, bads) ==
  UNION {{MkGraph(d, n, p, e, bad) :
            p \in Assignments(n),
            e \in IF cyclic THEN BackEdges(d, n) ELSE {<<0, 0>>},
            bad \in bads} :
         d \in Shapes(n, rooted)}

(***************************************************************************)
(* The author fallback shared by both normalizers.                         *)
(***************************************************************************)
\* The fallback applied to an absent name only, not to an empty one.
AuthorOrDeleted_NoneOnly(name) == IF name.some THEN name.str ELSE <<"[deleted]">>

\* `x or '[deleted]'` (lines 119 and 143).
AuthorOrDeleted(name) == IF TruthyStr(name) THEN name.str ELSE <<"[deleted]">>

(***************************************************************************)
(* Upstream submissions.  class is the concrete redditwarp class of the    *)
(* object; the attributes permalink-of-link, body and gallery_link exist   *)
(* only on the class that declares them (reading another raises            *)
(* AttributeError).  A title of None fails pydantic's validation of        *)
(* Post.title: str.                                                        *)
(***************************************************************************)
SubmissionClasses ==
  {"LinkPost", "TextPost", "GalleryPost", "PollPost", "CrosspostSubmission"}

\* The classes an object of class c is an instance of.
Mro(c) == {c, "Submission"}
IsInstance(submission, c) == c \in Mro(submission.class)

Submission(c, k, author, titled) ==
  [class |-> c,
   id36 |-> <<IdPool[k]>>,
   title |-> IF titled THEN Some(<<"title", IdPool[k]>>) ELSE NoneStr,
   author_display_name |-> author,
   score |-> 42 * k - 50,
   subreddit |-> <<"python">>,
   permalink |-> <<"https://reddit.com/comments/", IdPool[k]>>,
   created_at |-> <<"2024-01-01T00:00:00Z">>,
   comment_count |-> k,
   body |-> IF c = "TextPost" THEN Some(<<BodyPool[k]>>) ELSE NoneStr,
   gallery_link |-> IF c = "GalleryPost"
                    THEN Some(<<"https://reddit.com/gallery/", IdPool[k]>>)
                    ELSE NoneStr]

\* Reading an attribute that only some classes declare.
GetAttr(submission, attr) ==
  LET v == IF attr = "body" THEN submission.body ELSE submission.gallery_link
  IN IF v.some THEN [kind |-> "str", str |-> v.str]
     ELSE Raise("AttributeError",
                <<submission.class, "object has no attribute", attr>>)

(***************************************************************************)
(* PostNormalizer: _get_post_type, _get_post_content, _build_post.         *)
(***************************************************************************)
\* Lines 94-102.
_get_post_type(submission) ==
  IF IsInstance(submission, "LinkPost") THEN "link"
  ELSE IF IsInstance(submission, "TextPost") THEN "text"
  ELSE IF IsInstance(submission, "GalleryPost") THEN "gallery"
  ELSE "unknown"

\* _get_post_content with the TextPost branch returning the permalink.
_get_post_content_TextAsLink(submission) ==
  IF IsInstance(submission, "LinkPost") \/ IsInstance(submission, "TextPost")
  THEN [kind |-> "opt", opt |-> Some(submission.permalink)]
  ELSE IF IsInstance(submission, "GalleryPost")
  THEN [kind |-> "opt", opt |-> Some(submission.gallery_link.str)]
  ELSE [kind |-> "opt", opt |-> NoneStr]

\* Lines 104-112: an Optional[str] under kind "opt", or the exception raised.
_get_post_content(submission) ==
  IF IsInstance(submission, "LinkPost")
  THEN [kind |-> "opt", opt |-> Some(submission.permalink)]
  ELSE IF IsInstance(submission, "TextPost")
  THEN LET b == GetAttr(submission, "body")
       IN IF IsRaise(b) THEN b ELSE [kind |-> "opt", opt |-> Some(b.str)]
  ELSE IF IsInstance(submission, "GalleryPost")
  THEN LET l == GetAttr(submission, "gallery_link")
       IN IF IsRaise(l) THEN l ELSE [kind |-> "opt", opt |-> Some(l.str)]
  ELSE [kind |-> "opt", opt |-> NoneStr]

\* What pydantic says of a None given to a field declared str (lines 47-84):
\* the same text whatever object the value came from.
StringType ==
  <<"Input should be a valid string [type=string_type, input_value=None, input_type=NoneType]">>

\* created_at.astimezone().isoformat() (line 123): the instant rendered in
\* the local zone.
IsoLocal(t) == <<"local time of">> \o t

\* Lines 114-127: the Post, or the exception raised while building it.
_build_post(submission) ==
  LET content == _get_post_content(submission)
  IN IF IsRaise(content) THEN content
     ELSE IF ~submission.title.some
     THEN Raise("ValidationError",
                <<"1 validation error for Post", "title">> \o StringType)
     ELSE [kind |-> "post",
           id |-> submission.id36,
           title |-> submission.title.str,
           author |-> AuthorOrDeleted(submission.author_display_name),
           score |-> submission.score,
           subreddit |-> submission.subreddit,
           url |-> submission.permalink,
           created_at |-> IsoLocal(submission.created_at),
           comment_count |-> submission.comment_count,
           post_type |-> _get_post_type(submission),
           content |-> content.opt]

(***************************************************************************)
(* CommentTreeBuilder: RedditServer._build_comment_tree.                   *)
(***************************************************************************)
\* The base case testing depth < 0: one level too late.
BaseCase_OffByOne(node, depth) == depth < 0 \/ node = 0

\* `if depth <= 0 or not node` (line 131); node 0 is an absent node.
BaseCase(node, depth) == depth <= 0 \/ node = 0

\* The recursive call handing on its own depth.
ChildDepth_NoDecrement(depth) == depth

\* The depth handed to the recursive call (line 137).
ChildDepth(depth) == depth - 1

\* The built child put at the front of replies.
AppendReply_Prepend(replies, c) == IF Truthy(c) THEN <<c>> \o replies ELSE replies

\* `if child_comment: replies.append(child_comment)` (lines 138-139).
AppendReply(replies, c) == IF Truthy(c) THEN Append(replies, c) ELSE replies

\* Comment(id=..., author=..., body=..., score=..., replies=...) (lines
\* 141-147): pydantic rejects a body that is not a str.
NewComment(value, replies) ==
  IF ~value.body.some
  THEN Raise("ValidationError",
             <<"1 validation error for Comment", "body">> \o StringType)
  ELSE [kind |-> "comment",
        id |-> value.id36,
        author |-> AuthorOrDeleted(value.author_display_name),
        body |-> value.body.str,
        score |-> value.score,
        replies |-> replies]

RECURSIVE CollectReplies(_, _)
\* The loop of lines 135-139 over the children's results, in order.
CollectReplies(built, k) ==
  IF k = 0 THEN <<>> ELSE AppendReply(CollectReplies(built, k - 1), built[k])

RECURSIVE _build_comment_tree(_, _, _)
\* The value returned, or the exception raised, by _build_comment_tree(node,
\* depth) on the nodes of graph g: the first child call that raises ends the
\* loop; the node's own Comment is constructed after its children's.
_build_comment_tree(g, node, depth) ==
  IF BaseCase(node, depth) THEN None
  ELSE LET kids == g.ch[node]
           built == [k \in 1..Len(kids) |->
                       _build_comment_tree(g, kids[k], ChildDepth(depth))]
           raised == {k \in 1..Len(kids) : IsRaise(built[k])}
       IN IF raised # {}
          THEN built[CHOOSE k \in raised : \A j \in raised : k <= j]
          ELSE NewComment(g.val[node], CollectReplies(built, Len(kids)))

(***************************************************************************)
(* ErrorTranslator: the except clause of every public operation.           *)
(***************************************************************************)
ListingOps ==
  {"get_frontpage_posts", "get_subreddit_hot_posts", "get_subreddit_new_posts",
   "get_subreddit_top_posts", "get_subreddit_rising_posts"}
Ops == ListingOps \cup {"get_subreddit_info", "get_post_content",
                        "get_post_comments"}

\* The text before ": " in the f-string of the operation's except clause
\* (lines 157, 169, 179, 189, 199, 209, 222, 235).
Description(op, arg) ==
  CASE op = "get_frontpage_posts" -> <<"Failed to fetch frontpage posts">>
    [] op = "get_subreddit_info" ->
         <<"Failed to fetch subreddit info for '">> \o arg \o <<"'">>
    [] op = "get_subreddit_hot_posts" ->
         <<"Failed to fetch hot posts from '">> \o arg \o <<"'">>
    [] op = "get_subreddit_new_posts" ->
         <<"Failed to fetch new posts from '">> \o arg \o <<"'">>
    [] op = "get_subreddit_top_posts" ->
         <<"Failed to fetch top posts from '">> \o arg \o <<"'">>
    [] op = "get_subreddit_rising_posts" ->
         <<"Failed to fetch rising posts from '">> \o arg \o <<"'">>
    [] op = "get_post_content" ->
         <<"Failed to fetch post content for '">> \o arg \o <<"'">>
    [] op = "get_post_comments" ->
         <<"Failed to fetch comments for post '">> \o arg \o <<"'">>

\* The except clause leaving the cause's message out.
ErrorTranslate_NoCause(op, arg, e) == Raise("ValueError", Description(op, arg))

\* `except Exception as e: raise ValueError(f"...: {str(e)}")`.
ErrorTranslate(op, arg, e) ==
  Raise("ValueError", Description(op, arg) \o <<": ">> \o e.msg)

(***************************************************************************)
(* get_subreddit_info and get_post_comments, as functions of what the      *)
(* upstream returned.                                                      *)
(***************************************************************************)
\* SubredditInfo(name=..., subscriber_count=..., description=...) (lines
\* 163-167): pydantic rejects a name that is not a str.
NewSubredditInfo(subr) ==
  IF ~subr.name.some
  THEN Raise("ValidationError",
             <<"1 validation error for SubredditInfo", "name">> \o StringType)
  ELSE [kind |-> "subreddit_info",
        name |-> subr.name.str,
        subscriber_count |-> subr.subscriber_count,
        description |-> subr.public_description]

\* The exception raised inside the try block of get_post_comments (lines
\* 227-233), given the outcome of comment_tree.fetch: the fetch's own, or
\* that of the first top-level node whose build raises; None when none is.
\* Each top-level node is built with the default depth: the call of line 230
\* passes none.
CommentsFailure(fetched) ==
  IF IsRaise(fetched) THEN fetched
  ELSE LET g == fetched.graph
           built == [k \in 1..Len(g.top) |->
                       _build_comment_tree(g, g.top[k], DefaultDepth)]
           raised == {k \in 1..Len(g.top) : IsRaise(built[k])}
       IN IF raised = {} THEN None
          ELSE built[CHOOSE k \in raised : \A j \in raised : k <= j]

\* What get_post_comments(post_id, limit) returns or raises (lines 224-235).
CommentsOf(post_id, fetched) ==
  IF CommentsFailure(fetched) # None
  THEN ErrorTranslate("get_post_comments", post_id, CommentsFailure(fetched))
  ELSE LET g == fetched.graph
           built == [k \in 1..Len(g.top) |->
                       _build_comment_tree(g, g.top[k], DefaultDepth)]
       IN [kind |-> "list", items |-> CollectReplies(built, Len(g.top))]

(***************************************************************************)
(* Inputs.  Under the stdio transport one invocation runs at a time and    *)
(* its arguments and upstream responses range over the full sets below;    *)
(* under streamable-http NumInvocations invocations run concurrently, on   *)
(* one representative of each kind of argument and response.               *)
(***************************************************************************)
\* Concurrent tool invocations under the streamable-http transport.
NumInvocations == 2
\* Largest limit argument of a listing operation.
MaxLimit == 2

Names(t) == IF t = "stdio" THEN {<<"python">>, <<"doesnotexist">>}
            ELSE {<<"python">>}
PostIds(t) == IF t = "stdio" THEN {<<"abc123">>, <<"zzz999">>} ELSE {<<"abc123">>}
Limits(t) == IF t = "stdio" THEN 1..MaxLimit ELSE {1}
Depths(t) == IF t = "stdio" THEN 1..MaxDepth ELSE {1}

UpstreamErrors(t) ==
  IF t = "stdio"
  THEN {Raise("HTTPException", <<"404 Not Found">>),
        Raise("TimeoutError", <<"timed out">>)}
  ELSE {Raise("HTTPException", <<"404 Not Found">>)}

\* Submissions a listing or a submission fetch may return.
Submissions(t) ==
  IF t = "stdio"
  THEN {Submission("TextPost", 1, NoneStr, TRUE),
        Submission("LinkPost", 2, Some(<<>>), TRUE),
        Submission("GalleryPost", 3, Some(<<"alice">>), TRUE),
        Submission("PollPost", 4, Some(<<"bob">>), TRUE),
        Submission("TextPost", 5, Some(<<"alice">>), FALSE)}
  ELSE {Submission("TextPost", 1, NoneStr, TRUE),
        Submission("LinkPost", 2, Some(<<"alice">>), TRUE)}

Obj(x) == [kind |-> "obj", obj |-> x]

\* What iterating a listing pull yields: at most limit submissions, or some
\* submissions and then an exception of the paginator.
RECURSIVE SeqsUpTo(_, _)
SeqsUpTo(S, n) ==
  IF n = 0 THEN {<<>>}
  ELSE SeqsUpTo(S, n - 1)
         \cup {Append(q, x) : q \in {r \in SeqsUpTo(S, n - 1) : Len(r) = n - 1},
                              x \in S}

Listings(t, limit) ==
  LET subs == {Obj(x) : x \in Submissions(t)}
  IN SeqsUpTo(subs, limit)
       \cup {Append(q, e) : q \in SeqsUpTo(subs, limit - 1),
                            e \in UpstreamErrors(t)}

Subreddits(name) ==
  {[name |-> Some(name), subscriber_count |-> 1200,
    public_description |-> Some(<<"about">> \o name)],
   [name |-> Some(name), subscriber_count |-> 0, public_description |-> NoneStr],
   [name |-> NoneStr, subscriber_count |-> 7, public_description |-> NoneStr]}

\* Comment trees comment_tree.fetch may return: the children of the returned
\* node are the top-level comments.
Trees(t) ==
  IF t = "stdio"
  THEN UNION {Graphs(n, FALSE, FALSE, {0, n}) : n \in 0..MaxNodes}
  ELSE Graphs(1, FALSE, FALSE, {0, 1})

(***************************************************************************)
(* State.                                                                  *)
(*   transport: the transport mode chosen at start-up (lines 393-398).     *)
(*   inv[i]: tool invocation i: its position pc, its arguments, the        *)
(*     references it holds (server, posts), its locals, the upstream calls *)
(*     it made with their outcomes (log), the exception its try block      *)
(*     caught (cause) and what it returned or raised (result).             *)
(*   heap: the objects constructed so far, by address.                     *)
(*   tgraph, tnode, tdepth: the arguments of one outer call of             *)
(*     _build_comment_tree;  stack: its active calls, outermost first;     *)
(*     tresult: what the outer call returned or raised;  tsteps: steps     *)
(*     taken so far.                                                       *)
(*   subm, post: a submission and what _build_post makes of it.            *)
(***************************************************************************)
VARIABLES transport, inv, heap,
          tgraph, tnode, tdepth, stack, tresult, tsteps,
          subm, post

mvars == <<transport, inv, heap>>
tvars == <<tgraph, tnode, tdepth, stack, tresult, tsteps>>
pvars == <<subm, post>>
vars == <<transport, inv, heap, tgraph, tnode, tdepth, stack, tresult, tsteps,
          subm, post>>

Pending == [kind |-> "pending"]

Frame(node, depth) ==
  [node |-> node, depth |-> depth, pc |-> "entry", k |-> 1, replies |-> <<>>]

Top == stack[Len(stack)]
Pop == SubSeq(stack, 1, Len(stack) - 1)

\* A call returns ret to its caller: the caller's loop body (lines 138-139)
\* runs and moves to the next child; the outer call's value is the result.
\* An exception unwinds every active call: no frame catches it.
Deliver(ret) ==
  IF Len(stack) = 1 \/ IsRaise(ret)
  THEN /\ stack' = <<>>
       /\ tresult' = ret
  ELSE /\ stack' = [Pop EXCEPT ![Len(stack) - 1] =
                      [@ EXCEPT !.replies = AppendReply(@, ret), !.k = @ + 1]]
       /\ tresult' = tresult

\* Line 131-132: the base case returns None.
TBase ==
  /\ stack # <<>>
  /\ Top.pc = "entry"
  /\ BaseCase(Top.node, Top.depth)
  /\ Deliver(None)
  /\ tsteps' = tsteps + 1
  /\ UNCHANGED <<tgraph, tnode, tdepth, mvars, pvars>>

\* Lines 134-135: the call goes on to its loop with replies = [].
TEnter ==
  /\ stack # <<>>
  /\ Top.pc = "entry"
  /\ ~BaseCase(Top.node, Top.depth)
  /\ stack' = [stack EXCEPT ![Len(stack)] = [@ EXCEPT !.pc = "loop"]]
  /\ tsteps' = tsteps + 1
  /\ UNCHANGED <<tgraph, tnode, tdepth, tresult, mvars, pvars>>

\* Lines 136-137: the recursive call on the next child.
TRecurse ==
  /\ stack # <<>>
  /\ Top.pc = "loop"
  /\ Top.k <= Len(tgraph.ch[Top.node])
  /\ stack' = Append(stack,
                     Frame(tgraph.ch[Top.node][Top.k], ChildDepth(Top.depth)))
  /\ tsteps' = tsteps + 1
  /\ UNCHANGED <<tgraph, tnode, tdepth, tresult, mvars, pvars>>

\* Lines 141-147: the loop is over; the Comment is constructed and returned.
TReturn ==
  /\ stack # <<>>
  /\ Top.pc = "loop"
  /\ Top.k > Len(tgraph.ch[Top.node])
  /\ Deliver(NewComment(tgraph.val[Top.node], Top.replies))
  /\ tsteps' = tsteps + 1
  /\ UNCHANGED <<tgraph, tnode, tdepth, mvars, pvars>>

TNext == TBase \/ TEnter \/ TRecurse \/ TReturn

(***************************************************************************)
(* One invocation of a tool.                                               *)
(***************************************************************************)
NoValue == [kind |-> "nothing"]
NoResult == [kind |-> "pending", value |-> NoValue, type |-> "", msg |-> <<>>]

\* An object's address names the invocation that constructed it and counts
\* that invocation's objects: a new object is distinct from every other.
NoAddress == <<0, 0>>

Idle ==
  [pc |-> "idle", op |-> "", arg |-> <<>>, limit |-> 0, depth |-> 0,
   server |-> NoAddress, posts |-> NoAddress, it |-> <<>>, post |-> None,
   log |-> <<>>, cause |-> None, result |-> NoResult]

Call(name, out) == [call |-> name, out |-> out]

\* The address of the object invocation i constructs next.
NewAddress(i) == <<i, Cardinality({a \in DOMAIN heap : a[1] = i}) + 1>>

\* `reddit_server = RedditServer()` (lines 249, 264, ...; __init__, lines
\* 90-92): a new RedditServer holding a new redditwarp client.
NewServer(i) == NewAddress(i)

\* posts bound to one list shared by all calls (a module-level list, a
\* mutable default argument).
NewPostsList_Shared(i) == <<0, 1>>

\* `posts = []` (lines 152, 174, 184, 194, 204): a new list.
NewPostsList(i) == NewAddress(i)

\* heap with the object obj at address a: constructed there if a is new.
Store(a, obj) == IF a \in DOMAIN heap THEN heap ELSE (a :> obj) @@ heap

\* The invocation after its operation returned v, which the tool function
\* dumps field by field.
Returned(r, v) ==
  [r EXCEPT !.pc = "done",
            !.result = [kind |-> "return", value |-> v, type |-> "", msg |-> <<>>]]

\* The except clause returning what the operation has built so far.
Failed_ReturnsPartial(r, e) ==
  [r EXCEPT !.pc = "done",
            !.cause = IF r.cause = None THEN e ELSE r.cause,
            !.result = [kind |-> "return",
                        value |-> [kind |-> "list",
                                   items |-> IF r.posts \in DOMAIN heap
                                             THEN heap[r.posts].items
                                             ELSE <<>>],
                        type |-> "", msg |-> <<>>]]

\* The except clause starting the operation over.
Failed_Retry(r, e) ==
  [r EXCEPT !.pc = "call", !.cause = IF r.cause = None THEN e ELSE r.cause]

\* The invocation after exception e reached the except clause of its
\* operation: the ValueError leaves the operation and the tool function.
Failed(r, e) ==
  [r EXCEPT !.pc = "done",
            !.cause = IF r.cause = None THEN e ELSE r.cause,
            !.result = [kind |-> "raise", value |-> NoValue,
                        type |-> ErrorTranslate(r.op, r.arg, e).type,
                        msg |-> ErrorTranslate(r.op, r.arg, e).msg]]

\* The upstream call each listing operation makes.
PullName(op) ==
  CASE op = "get_frontpage_posts" -> "front.pull.hot"
    [] op = "get_subreddit_hot_posts" -> "subreddit.pull.hot"
    [] op = "get_subreddit_new_posts" -> "subreddit.pull.new"
    [] op = "get_subreddit_top_posts" -> "subreddit.pull.top"
    [] op = "get_subreddit_rising_posts" -> "subreddit.pull.rising"

\* A tool function is entered with validated arguments and constructs its
\* RedditServer (lines 239-250, 254-265, ..., 359-371).
Invoke(i) ==
  /\ inv[i].pc = "idle"
  /\ \E op \in Ops :
       \E arg \in (IF op = "get_frontpage_posts" THEN {<<>>}
                   ELSE IF op \in {"get_post_content", "get_post_comments"}
                   THEN PostIds(transport) ELSE Names(transport)) :
         \E limit \in (IF op = "get_subreddit_info" THEN {0}
                       ELSE Limits(transport)) :
           \E depth \in (IF op = "get_post_content" THEN Depths(transport)
                         ELSE {0}) :
             /\ inv' = [inv EXCEPT ![i] =
                          [@ EXCEPT !.pc = "call", !.op = op, !.arg = arg,
                                    !.limit = limit, !.depth = depth,
                                    !.server = NewServer(i)]]
             /\ heap' = Store(NewServer(i),
                              [type |-> "RedditServer", client |-> NewServer(i),
                               items |-> <<>>])
  /\ UNCHANGED <<transport, tvars, pvars>>

\* Lines 152-153 (and 174-175, ...): posts = [] and the listing pull, which
\* raises or hands back an iterator.
ListingPull(i) ==
  /\ inv[i].pc = "call"
  /\ inv[i].op \in ListingOps
  /\ \E out \in UpstreamErrors(transport)
                  \cup {[kind |-> "iter", items |-> q] :
                          q \in Listings(transport, inv[i].limit)} :
       LET r == [inv[i] EXCEPT !.posts = NewPostsList(i),
                               !.log = Append(@, Call(PullName(inv[i].op), out))]
       IN /\ inv' = [inv EXCEPT ![i] =
                       IF IsRaise(out) THEN Failed(r, out)
                       ELSE [r EXCEPT !.pc = "iter", !.it = out.items]]
          /\ heap' = Store(NewPostsList(i),
                           [type |-> "list", client |-> NoAddress,
                            items |-> <<>>])
  /\ UNCHANGED <<transport, tvars, pvars>>

\* One turn of the for loop of lines 153-154: the iterator is exhausted and
\* posts is returned (line 155), or it raises, or it yields a submission
\* that _build_post turns into a Post appended to posts, or fails on.
ListingNext(i) ==
  /\ inv[i].pc = "iter"
  /\ LET r == inv[i]
     IN IF r.it = <<>>
        THEN /\ inv' = [inv EXCEPT ![i] =
                          Returned(r, [kind |-> "list",
                                       items |-> heap[r.posts].items])]
             /\ heap' = heap
        ELSE LET x == Head(r.it)
                 r1 == [r EXCEPT !.it = Tail(@),
                                 !.log = Append(@, Call("next", x))]
             IN IF IsRaise(x)
                THEN /\ inv' = [inv EXCEPT ![i] = Failed(r1, x)]
                     /\ heap' = heap
                ELSE IF IsRaise(_build_post(x.obj))
                THEN /\ inv' = [inv EXCEPT ![i] = Failed(r1, _build_post(x.obj))]
                     /\ heap' = heap
                ELSE /\ inv' = [inv EXCEPT ![i] = r1]
                     /\ heap' = [heap EXCEPT ![r.posts].items =
                                   Append(@, _build_post(x.obj))]
  /\ UNCHANGED <<transport, tvars, pvars>>

\* get_subreddit_info (lines 161-169).
FetchSubreddit(i) ==
  /\ inv[i].pc = "call"
  /\ inv[i].op = "get_subreddit_info"
  /\ \E out \in UpstreamErrors(transport)
                  \cup {Obj(x) : x \in Subreddits(inv[i].arg)} :
       LET r == [inv[i] EXCEPT !.log = Append(@, Call("subreddit.fetch_by_name", out))]
       IN inv' = [inv EXCEPT ![i] =
                    IF IsRaise(out) THEN Failed(r, out)
                    ELSE IF IsRaise(NewSubredditInfo(out.obj))
                    THEN Failed(r, NewSubredditInfo(out.obj))
                    ELSE Returned(r, NewSubredditInfo(out.obj))]
  /\ UNCHANGED <<transport, heap, tvars, pvars>>

\* get_post_content, lines 213-215: the submission fetch and _build_post.
FetchSubmission(i) ==
  /\ inv[i].pc = "call"
  /\ inv[i].op = "get_post_content"
  /\ \E out \in UpstreamErrors(transport)
                  \cup {Obj(x) : x \in Submissions(transport)} :
       LET r == [inv[i] EXCEPT !.log = Append(@, Call("submission.fetch", out))]
       IN inv' = [inv EXCEPT ![i] =
                    IF IsRaise(out) THEN Failed(r, out)
                    ELSE IF IsRaise(_build_post(out.obj))
                    THEN Failed(r, _build_post(out.obj))
                    ELSE [r EXCEPT !.pc = "comments",
                                   !.post = _build_post(out.obj)]]
  /\ UNCHANGED <<transport, heap, tvars, pvars>>

\* get_post_comments (lines 226-235), called by the tool or by line 218 of
\* get_post_content, which then returns the PostDetail (line 220) or
\* translates the ValueError once more (line 222).
FetchComments(i) ==
  /\ \/ inv[i].pc = "call" /\ inv[i].op = "get_post_comments"
     \/ inv[i].pc = "comments" /\ inv[i].op = "get_post_content"
  /\ \E out \in UpstreamErrors(transport)
                  \cup {[kind |-> "tree", graph |-> g] : g \in Trees(transport)} :
       LET r == [inv[i] EXCEPT !.log = Append(@, Call("comment_tree.fetch", out)),
                               !.cause = CommentsFailure(out)]
           comments == CommentsOf(r.arg, out)
       IN inv' = [inv EXCEPT ![i] =
                    IF r.op = "get_post_comments"
                    THEN IF IsRaise(comments)
                         THEN Failed(r, CommentsFailure(out))
                         ELSE Returned(r, comments)
                    ELSE IF IsRaise(comments)
                         THEN Failed(r, comments)
                         ELSE Returned(r, [kind |-> "post_detail",
                                           post |-> r.post,
                                           comments |-> comments.items])]
  /\ UNCHANGED <<transport, heap, tvars, pvars>>

Next ==
  \/ \E i \in DOMAIN inv : Invoke(i)
  \/ \E i \in DOMAIN inv : ListingPull(i)
  \/ \E i \in DOMAIN inv : ListingNext(i)
  \/ \E i \in DOMAIN inv : FetchSubreddit(i)
  \/ \E i \in DOMAIN inv : FetchSubmission(i)
  \/ \E i \in DOMAIN inv : FetchComments(i)

(***************************************************************************)
(* _build_post applied to one submission.                                  *)
(***************************************************************************)
AllSubmissions ==
  {Submission(c, k, a, titled) :
     c \in SubmissionClasses, k \in 1..2,
     a \in {AuthorPool[j] : j \in 1..Len(AuthorPool)}, titled \in BOOLEAN}

PBuild ==
  /\ post = Pending
  /\ post' = _build_post(subm)
  /\ UNCHANGED <<subm, mvars, tvars>>

PNext == PBuild

(***************************************************************************)
(* Specifications.                                                         *)
(***************************************************************************)
MOff == /\ transport = "stdio"
        /\ inv = <<>>
        /\ heap = <<>>
TOff == /\ tgraph = MkGraph(<<1>>, 1, <<1>>, <<0, 0>>, 0)
        /\ tnode = 0
        /\ tdepth = 0
        /\ stack = <<>>
        /\ tresult = None
        /\ tsteps = 0
POff == /\ subm = Submission("TextPost", 1, NoneStr, TRUE)
        /\ post = None

\* One invocation under the stdio transport.
Init ==
  /\ transport = "stdio"
  /\ inv = [i \in {1} |-> Idle]
  /\ heap = <<>>
  /\ TOff /\ POff

\* NumInvocations concurrent invocations under streamable-http.
InitConc ==
  /\ transport = "streamable-http"
  /\ inv = [i \in 1..NumInvocations |-> Idle]
  /\ heap = <<>>
  /\ TOff /\ POff

\* One outer call _build_comment_tree(node, depth) on a node of an upstream
\* graph (or on an absent node), with a depth a caller may pass.
TInit ==
  /\ \E n \in 1..MaxNodes :
       /\ tgraph \in Graphs(n, TRUE, TRUE, {0, n})
       /\ tnode \in {0, 1}
  /\ tdepth \in 1..MaxDepth
  /\ stack = <<Frame(tnode, tdepth)>>
  /\ tresult = Pending
  /\ tsteps = 0
  /\ MOff /\ POff

PInit ==
  /\ subm \in AllSubmissions
  /\ post = Pending
  /\ MOff /\ TOff

Spec == Init /\ [][Next]_vars
SpecConc == InitConc /\ [][Next]_vars
SpecTree == TInit /\ [][TNext]_vars /\ WF_vars(TNext)
SpecPost == PInit /\ [][PNext]_vars

(***************************************************************************)
(* Measures used by the properties.                                        *)
(***************************************************************************)
RECURSIVE DeepestLevel(_)
\* The nesting level of the deepest Comment below c; c itself is level 0.
DeepestLevel(c) ==
  IF c.replies = <<>> THEN 0
  ELSE 1 + SetMax({DeepestLevel(c.replies[k]) : k \in 1..Len(c.replies)})

RECURSIVE AllComments(_)
\* c and every Comment nested in it.
AllComments(c) ==
  {c} \cup UNION {AllComments(c.replies[k]) : k \in 1..Len(c.replies)}

RECURSIVE Pow(_, _)
Pow(b, e) == IF e = 0 THEN 1 ELSE b * Pow(b, e - 1)

RECURSIVE Geometric(_, _)
\* 1 + b + ... + b^e.
Geometric(b, e) == IF e = 0 THEN 1 ELSE Pow(b, e) + Geometric(b, e - 1)

\* The output author the fallback rule asks for, stated without the code.
AuthorAsSpecified(name, author) ==
  /\ (name.some /\ name.str # <<>>) => author = name.str
  /\ (~name.some \/ name.str = <<>>) => author = <<"[deleted]">>

TDone == tresult.kind # "pending"

(***************************************************************************)
(* C5.  _build_post keeps post_type and content in lockstep: LinkPost ->   *)
(* link with the permalink, TextPost -> text with the body, GalleryPost -> *)
(* gallery with the gallery link, any other class -> unknown with no       *)
(* content; classifying a well-formed submission never raises.             *)
(***************************************************************************)
C5_TypeContentLockstep ==
  post.kind # "pending" =>
    /\ subm.title.some => post.kind = "post"
    /\ post.kind = "post" =>
         /\ subm.class = "LinkPost" =>
              post.post_type = "link" /\ post.content = Some(subm.permalink)
         /\ subm.class = "TextPost" =>
              post.post_type = "text" /\ post.content = Some(subm.body.str)
         /\ subm.class = "GalleryPost" =>
              /\ post.post_type = "gallery"
              /\ post.content = Some(subm.gallery_link.str)
         /\ subm.class \notin {"LinkPost", "TextPost", "GalleryPost"} =>
              post.post_type = "unknown" /\ post.content = NoneStr

\* A Post was built from a submission of an unrecognized class.
C5_Witness ==
  /\ post.kind = "post"
  /\ subm.class = "PollPost"
  /\ post.post_type = "unknown"
  /\ ~post.content.some

(***************************************************************************)
(* C2.  _build_comment_tree(node, M) on a tree with D levels returns a     *)
(* Comment whose deepest descendant is at nesting level min(D, M) - 1;     *)
(* with M = 1 its replies are empty.                                       *)
(***************************************************************************)
C2_DeepestLevel ==
  (TDone /\ tresult.kind = "comment" /\ tgraph.back = <<0, 0>>) =>
    /\ DeepestLevel(tresult)
         = Min(SetMax({tgraph.levels[n] : n \in 1..tgraph.n}), tdepth) - 1
    /\ tdepth = 1 => tresult.replies = <<>>

\* A tree of 4 levels was cut at depth 2: the node reached with budget 1 is
\* kept, the two levels below it are dropped.
C2_Witness ==
  /\ TDone /\ tresult.kind = "comment" /\ tgraph.back = <<0, 0>>
  /\ tdepth = 2
  /\ SetMax({tgraph.levels[n] : n \in 1..tgraph.n}) = 4
  /\ DeepestLevel(tresult) = 1

(***************************************************************************)
(* C9.  _build_comment_tree terminates on every finitely branching node    *)
(* graph, cyclic ones included: each recursive call gets a depth one       *)
(* smaller than its caller's, a call of depth 0 returns without recursing, *)
(* the nesting of recursive calls never exceeds the initial depth, the     *)
(* number of steps is bounded by the branching and the depth alone, and    *)
(* an unfinished call can always take a step.                              *)
(***************************************************************************)
C9_BoundedRecursion ==
  /\ \A k \in 1..Len(stack) :
       /\ stack[k].depth = tdepth - (k - 1)
       /\ stack[k].depth >= 0
       /\ stack[k].depth = 0 => k = Len(stack) /\ stack[k].pc = "entry"
  /\ Len(stack) - 1 <= tdepth
  /\ tsteps <= 3 * Geometric(SetMax({Len(tgraph.ch[n]) : n \in 1..tgraph.n}),
                             tdepth)
  /\ TDone <=> stack = <<>>
  /\ ~TDone => ENABLED TNext

\* The outer call on a cyclic graph has returned a Comment after recursing
\* through the cycle down to the depth bound.
C9_Witness ==
  /\ TDone /\ tresult.kind = "comment"
  /\ tgraph.back # <<0, 0>>
  /\ tdepth = MaxDepth
  /\ DeepestLevel(tresult) = MaxDepth - 1
  /\ tgraph.n = 1

\* Every outer call eventually returns or raises.
C9_Terminates == <>TDone

\* The stepwise execution returns what the function _build_comment_tree
\* gives.
TreeMachineAgrees ==
  TDone => tresult = _build_comment_tree(tgraph, tnode, tdepth)

(***************************************************************************)
(* What the properties of an invocation read.                              *)
(***************************************************************************)
Done(i) == inv[i].pc = "done"
ReturnedOk(i) == Done(i) /\ inv[i].result.kind = "return"
RaisedError(i) == Done(i) /\ inv[i].result.kind = "raise"

\* The list of Comment an invocation returned (get_post_comments) or
\* returned inside its PostDetail (get_post_content).
CommentsReturned(i) ==
  IF inv[i].op = "get_post_content" THEN inv[i].result.value.comments
  ELSE inv[i].result.value.items

\* The comment tree the upstream handed to the invocation: its last call.
TreeFetched(i) == inv[i].log[Len(inv[i].log)].out.graph

ReturnedComments(i) ==
  ReturnedOk(i) /\ inv[i].op \in {"get_post_content", "get_post_comments"}

\* The node of g that carries the comment with this id.
NodeOfId(g, id) == CHOOSE n \in 1..g.n : g.val[n].id36 = id

FetchNames ==
  {"front.pull.hot", "subreddit.pull.hot", "subreddit.pull.new",
   "subreddit.pull.top", "subreddit.pull.rising", "subreddit.fetch_by_name",
   "submission.fetch", "comment_tree.fetch"}

(***************************************************************************)
(* C1.  The comment trees get_post_content returns never exceed the        *)
(* requested comment_depth: no Comment at nesting level >= comment_depth.  *)
(***************************************************************************)
C1_DepthRespected ==
  \A i \in DOMAIN inv :
    (ReturnedOk(i) /\ inv[i].op = "get_post_content") =>
      \A k \in 1..Len(CommentsReturned(i)) :
        DeepestLevel(CommentsReturned(i)[k]) < inv[i].depth

(***************************************************************************)
(* C3.  Every operation ends with a fully normalized result, or with a     *)
(* ValueError whose message contains the operation's description, its      *)
(* subreddit name or post id, and the message of the failure that caused   *)
(* it; no other kind of failure leaves the operation.                      *)
(***************************************************************************)
Normalized(op, v) ==
  CASE op \in ListingOps ->
         v.kind = "list" /\ \A k \in 1..Len(v.items) : v.items[k].kind = "post"
    [] op = "get_subreddit_info" -> v.kind = "subreddit_info"
    [] op = "get_post_comments" ->
         v.kind = "list" /\ \A k \in 1..Len(v.items) : v.items[k].kind = "comment"
    [] op = "get_post_content" ->
         /\ v.kind = "post_detail"
         /\ v.post.kind = "post"
         /\ \A k \in 1..Len(v.comments) : v.comments[k].kind = "comment"

C3_UniformError ==
  \A i \in DOMAIN inv :
    Done(i) =>
      \/ /\ inv[i].result.kind = "return"
         /\ inv[i].cause = None
         /\ Normalized(inv[i].op, inv[i].result.value)
      \/ /\ inv[i].result.kind = "raise"
         /\ inv[i].cause # None
         /\ inv[i].result.type = "ValueError"
         /\ Contains(inv[i].result.msg, Description(inv[i].op, inv[i].arg))
         /\ Contains(inv[i].result.msg, inv[i].arg)
         /\ Contains(inv[i].result.msg, inv[i].cause.msg)

\* get_post_content built its Post, and the nested comment fetch then
\* failed: the error names both operations and the upstream's message.
C3_Witness ==
  \E i \in DOMAIN inv :
    /\ RaisedError(i)
    /\ inv[i].op = "get_post_content"
    /\ inv[i].post # None
    /\ inv[i].cause.type = "TimeoutError"
    /\ inv[i].result.msg =
         <<"Failed to fetch post content for '", "zzz999", "'", ": ",
           "Failed to fetch comments for post '", "zzz999", "'", ": ",
           "timed out">>

(***************************************************************************)
(* C4.  No partial data comes with an error: when a failure follows k >= 0 *)
(* normalized submissions the listing operation returns no Post, and when  *)
(* it follows the Post built by get_post_content no PostDetail and no Post *)
(* is returned.                                                            *)
(***************************************************************************)
C4_NoPartialData ==
  \A i \in DOMAIN inv :
    (Done(i) /\ inv[i].cause # None) =>
      /\ inv[i].result.kind = "raise"
      /\ inv[i].result.value = NoValue

\* A listing failed after one submission had been normalized into posts.
C4_Witness ==
  \E i \in DOMAIN inv :
    /\ RaisedError(i)
    /\ inv[i].op \in ListingOps
    /\ inv[i].posts # NoAddress
    /\ Len(heap[inv[i].posts].items) = 1

(***************************************************************************)
(* C6.  The author of every Post and of every Comment, at every nesting    *)
(* level, is '[deleted]' when the upstream display name is absent or       *)
(* empty, and the upstream name otherwise.                                 *)
(***************************************************************************)
C6_AuthorFallback ==
  \A i \in DOMAIN inv :
    /\ (ReturnedOk(i) /\ inv[i].op \in ListingOps) =>
         \A k \in 1..Len(inv[i].result.value.items) :
           AuthorAsSpecified(inv[i].log[k + 1].out.obj.author_display_name,
                             inv[i].result.value.items[k].author)
    /\ (ReturnedOk(i) /\ inv[i].op = "get_post_content") =>
         AuthorAsSpecified(inv[i].log[1].out.obj.author_display_name,
                           inv[i].result.value.post.author)
    /\ ReturnedComments(i) =>
         \A k \in 1..Len(CommentsReturned(i)) :
           \A c \in AllComments(CommentsReturned(i)[k]) :
             AuthorAsSpecified(
               TreeFetched(i).val[NodeOfId(TreeFetched(i), c.id)].author_display_name,
               c.author)

\* A PostDetail whose Post has an absent author, with a Comment at nesting
\* level 2 whose author is empty upstream, under one whose name is kept.
C6_Witness ==
  \E i \in DOMAIN inv :
    /\ ReturnedOk(i) /\ inv[i].op = "get_post_content"
    /\ ~inv[i].log[1].out.obj.author_display_name.some
    /\ inv[i].result.value.post.author = <<"[deleted]">>
    /\ \E k \in 1..Len(CommentsReturned(i)) :
         LET c == CommentsReturned(i)[k]
         IN /\ Len(c.replies) = 1
            /\ c.replies[1].author = <<"alice">>
            /\ Len(c.replies[1].replies) = 1
            /\ c.replies[1].replies[1].author = <<"[deleted]">>
            /\ c.replies[1].replies[1].id = <<"c2">>

(***************************************************************************)
(* C7.  At every level that is not truncated, the replies of a Comment,    *)
(* and the top-level list get_post_comments returns, hold exactly the      *)
(* upstream children of the node, in upstream order.                       *)
(***************************************************************************)
RECURSIVE Faithful(_, _, _, _)
\* c is the Comment of node n, and so are its replies down to the level
\* built with depth 1, whose replies are truncated.
Faithful(g, n, c, depth) ==
  /\ c.id = g.val[n].id36
  /\ depth > 1 =>
       /\ Len(c.replies) = Len(g.ch[n])
       /\ \A k \in 1..Len(c.replies) :
            Faithful(g, g.ch[n][k], c.replies[k], depth - 1)

C7_OrderingFidelity ==
  \A i \in DOMAIN inv :
    ReturnedComments(i) =>
      /\ Len(CommentsReturned(i)) = Len(TreeFetched(i).top)
      /\ \A k \in 1..Len(CommentsReturned(i)) :
           Faithful(TreeFetched(i), TreeFetched(i).top[k],
                    CommentsReturned(i)[k], DefaultDepth)

\* get_post_comments returned one Comment with three replies, whose ids
\* are in the upstream's order and in no sorted order.
C7_Witness ==
  \E i \in DOMAIN inv :
    /\ ReturnedOk(i) /\ inv[i].op = "get_post_comments"
    /\ Len(CommentsReturned(i)) = 1
    /\ Len(CommentsReturned(i)[1].replies) = 3
    /\ CommentsReturned(i)[1].replies[1].id = <<"c3">>
    /\ CommentsReturned(i)[1].replies[2].id = <<"c4">>
    /\ CommentsReturned(i)[1].replies[3].id = <<"c1">>

(***************************************************************************)
(* C10.  No retries: an invocation issues each upstream fetch at most      *)
(* once, a failed upstream call is the last one it makes, and it then ends *)
(* with the ValueError; after a failed submission fetch get_post_content   *)
(* never fetches the comment tree.                                         *)
(***************************************************************************)
C10_NoRetries ==
  \A i \in DOMAIN inv :
    LET log == inv[i].log
    IN /\ \A f \in FetchNames :
            Cardinality({k \in 1..Len(log) : log[k].call = f}) <= 1
       /\ \A k \in 1..Len(log) :
            IsRaise(log[k].out) =>
              /\ k = Len(log)
              /\ RaisedError(i)
              /\ inv[i].result.type = "ValueError"

\* get_post_content ended in the error after its submission fetch failed,
\* having made that one upstream call.
C10_Witness ==
  \E i \in DOMAIN inv :
    /\ RaisedError(i)
    /\ inv[i].op = "get_post_content"
    /\ Len(inv[i].log) = 1
    /\ inv[i].log[1].call = "submission.fetch"
    /\ IsRaise(inv[i].log[1].out)

(***************************************************************************)
(* C8.  Concurrent invocations are independent: each has a RedditServer,   *)
(* a client and a posts list of its own, and under every interleaving each *)
(* returns or raises what it would when run alone on the responses the     *)
(* upstream gave it.                                                       *)
(***************************************************************************)
RECURSIVE RunListing(_, _)
\* The for loop of a listing operation run to its end on the iterator's
\* items, with the Posts built so far: the list returned, or the exception
\* that reaches the except clause.
RunListing(items, built) ==
  IF items = <<>> THEN [kind |-> "list", items |-> built]
  ELSE IF IsRaise(Head(items)) THEN Head(items)
  ELSE IF IsRaise(_build_post(Head(items).obj)) THEN _build_post(Head(items).obj)
  ELSE RunListing(Tail(items), Append(built, _build_post(Head(items).obj)))

\* What the operation of a finished invocation gives when it runs alone and
\* the upstream answers its calls as recorded in its log.
Alone(r) ==
  LET first == r.log[1].out
      body ==
        CASE r.op \in ListingOps ->
               IF IsRaise(first) THEN first ELSE RunListing(first.items, <<>>)
          [] r.op = "get_subreddit_info" ->
               IF IsRaise(first) THEN first ELSE NewSubredditInfo(first.obj)
          [] r.op = "get_post_comments" ->
               IF CommentsFailure(first) # None THEN CommentsFailure(first)
               ELSE CommentsOf(r.arg, first)
          [] r.op = "get_post_content" ->
               IF IsRaise(first) THEN first
               ELSE IF IsRaise(_build_post(first.obj)) THEN _build_post(first.obj)
               ELSE IF IsRaise(CommentsOf(r.arg, r.log[2].out))
               THEN CommentsOf(r.arg, r.log[2].out)
               ELSE [kind |-> "post_detail",
                     post |-> _build_post(first.obj),
                     comments |-> CommentsOf(r.arg, r.log[2].out).items]
  IN IF IsRaise(body)
     THEN [kind |-> "raise", value |-> NoValue,
           type |-> "ValueError",
           msg |-> Description(r.op, r.arg) \o <<": ">> \o body.msg]
     ELSE [kind |-> "return", value |-> body, type |-> "", msg |-> <<>>]

C8_Independent ==
  \A i \in DOMAIN inv :
    /\ \A j \in DOMAIN inv \ {i} :
         /\ inv[i].server # NoAddress => inv[i].server # inv[j].server
         /\ inv[i].posts # NoAddress => inv[i].posts # inv[j].posts
    /\ inv[i].server # NoAddress =>
         /\ heap[inv[i].server].type = "RedditServer"
         /\ \A j \in DOMAIN inv \ {i} :
              inv[j].server # NoAddress =>
                heap[inv[i].server].client # heap[inv[j].server].client
    /\ Done(i) => inv[i].result = Alone(inv[i])

\* Two listing invocations are in their loops at the same time, each with
\* the Post of its own submission, and not the other's, in its own list.
C8_Witness ==
  \E i, j \in DOMAIN inv :
    /\ i # j
    /\ inv[i].pc = "iter" /\ inv[j].pc = "iter"
    /\ Len(heap[inv[i].posts].items) = 1
    /\ Len(heap[inv[j].posts].items) = 1
    /\ heap[inv[i].posts].items # heap[inv[j].posts].items

====
